---------------------------- MODULE Spec2Model ----------------------------
(***************************************************************************)
(* Modified Dietz return engine of the InvestmentAnalytics repository.    *)
(*                                                                        *)
(* The repository holds several near-duplicate scripts that compute the   *)
(* same period table from a transaction list and a price history:         *)
(*   IR   returns/investment_returns.py (and its copies under analytics/  *)
(*        performance/ and returns/investment_returns_exp.py)             *)
(*   TOST TOST_return.py                                                  *)
(*   TRA  tost_return_analytics.py                                        *)
(*   PAV  etl/process_asset_value.py                                      *)
(*   AVR  etl/asset_value_records.py                                      *)
(*   ING  etl/ingest_transactions.py, which loads the transactions table  *)
(* and one script that reads the period tables back from the database and *)
(* reports the returns over horizon windows:                              *)
(*   PD   analytics/performance/performance_dashboard.py                  *)
(* Each run of a script is one behaviour: Init draws which script runs    *)
(* (prog) and its inputs, and every function main calls (every section of *)
(* a flat script) is one action.                                          *)
(*                                                                        *)
(* Specifications.  Spec runs every script from its inputs up to the      *)
(* metrics of the period table.  SpecMetrics, SpecWeighting and SpecLink  *)
(* run one stage (the metrics, the weighting, the geometric linking) on   *)
(* inputs drawn for that stage: a month of 30 days, every day of months of*)
(* 28 to 31 days, a column of returns.  SpecDash runs the dashboard on    *)
(* the rows of the two views it reads.  SpecPrices runs the scripts that  *)
(* merge a price history on histories with months that hold no price,     *)
(* SpecPrepare the preparation of the transaction rows on every Trans Code*)
(* and sign of the export, SpecIngest the sort of ingest_transactions.py  *)
(* (prog "ING") on rows in the order of the CSV.                          *)
(*                                                                        *)
(* Numbers.  pandas works on IEEE doubles.  A double is modelled by the   *)
(* exact rational it approximates, a pair <<n, d>> in lowest terms with   *)
(* d > 0, and the non-finite doubles by d = 0: NaN, Inf, NegInf.  None is *)
(* the Python object that Series.replace(..., None) stores.  Rounding     *)
(* error of the doubles is not modelled.                                  *)
(***************************************************************************)
EXTENDS Integers, Sequences, FiniteSets, TLC

VARIABLES
    prog,       \* which script runs
    pc,         \* position in the script's main
    txns,       \* the transaction rows read from the CSV / transactions table
    hist,       \* the price history, one [first, last] close per period
    df,         \* the prepared transaction frame (df_stock/df_equities/df_tost)
    wcf_table,  \* the weighted cash flow rows (calculate_wcf_table, components)
    table,      \* the period table (equities_nav / period_data / merged), and
                \* the summary table of performance_dashboard.py
    df_instr,   \* the rows performance_dashboard.py reads from asset_value_view
    df_port     \* the rows it reads from portfolio_monthly_agg

vars == <<prog, pc, txns, hist, df, wcf_table, table, df_instr, df_port>>

----------------------------------------------------------------------------
(* Bounds of the model                                                    *)

\* longest transaction list drawn
MaxTx == 2

\* the periods of the price history: calendar months from January 2024
NumPeriods == 2

----------------------------------------------------------------------------
(* Doubles as exact rationals                                             *)

Abs(n) == IF n < 0 THEN -n ELSE n

Sign(n) == IF n < 0 THEN -1 ELSE IF n > 0 THEN 1 ELSE 0

RECURSIVE GCD(_, _)
GCD(a, b) == IF b = 0 THEN a ELSE GCD(b, a % b)

NaN == <<0, 0>>
Inf == <<1, 0>>
NegInf == <<-1, 0>>
None == <<2, 0>>

\* the double n/d; a zero divisor gives the IEEE result of the division
Norm(n, d) ==
    IF d = 0 THEN <<Sign(n), 0>>
    ELSE LET g == GCD(Abs(n), Abs(d))
             s == IF d < 0 THEN -1 ELSE 1
         IN  <<(s * n) \div g, (s * d) \div g>>

I(n) == <<n, 1>>

IsFinite(x) == x[2] # 0
IsInf(x) == x = Inf \/ x = NegInf
\* pd.isnull: NaN and None are missing, the infinities are not
IsNull(x) == x = NaN \/ x = None
\* a Series holding None yields NaN in vectorised arithmetic
AsFloat(x) == IF x = None THEN NaN ELSE x

FNeg(x) == IF IsFinite(x) THEN <<-x[1], x[2]>> ELSE <<-x[1], 0>>

FAdd(x, y) ==
    IF x = NaN \/ y = NaN THEN NaN
    ELSE IF IsInf(x) THEN (IF IsInf(y) /\ y # x THEN NaN ELSE x)
    ELSE IF IsInf(y) THEN y
    ELSE Norm(x[1] * y[2] + y[1] * x[2], x[2] * y[2])

FSub(x, y) == FAdd(x, FNeg(y))

FMul(x, y) ==
    IF x = NaN \/ y = NaN THEN NaN
    ELSE IF IsInf(x) \/ IsInf(y)
         THEN (IF x[1] = 0 \/ y[1] = 0 THEN NaN
               ELSE <<Sign(x[1]) * Sign(y[1]), 0>>)
    ELSE LET g == GCD(Abs(x[1]), y[2])
             h == GCD(Abs(y[1]), x[2])
             a == IF g = 0 THEN 1 ELSE g
             b == IF h = 0 THEN 1 ELSE h
         IN  Norm((x[1] \div a) * (y[1] \div b), (x[2] \div b) * (y[2] \div a))

FDiv(x, y) ==
    IF x = NaN \/ y = NaN THEN NaN
    ELSE IF IsInf(x) THEN (IF IsInf(y) THEN NaN
                           ELSE IF y[1] < 0 THEN FNeg(x) ELSE x)
    ELSE IF IsInf(y) THEN I(0)
    ELSE IF y[1] = 0 THEN <<Sign(x[1]), 0>>
    ELSE FMul(x, IF y[1] < 0 THEN <<-y[2], -y[1]>> ELSE <<y[2], y[1]>>)

FLeq(x, y) == x[1] * y[2] <= y[1] * x[2]

----------------------------------------------------------------------------
(* Sequences                                                              *)

RECURSIVE SumSeq(_)
SumSeq(s) == IF s = <<>> THEN 0 ELSE Head(s) + SumSeq(Tail(s))

RECURSIVE FSumSeq(_)
FSumSeq(s) == IF s = <<>> THEN I(0) ELSE FAdd(Head(s), FSumSeq(Tail(s)))

Map(s, Op(_)) == [i \in 1..Len(s) |-> Op(s[i])]

----------------------------------------------------------------------------
(* Period calendar: pandas Period('M')                                    *)

\* month and year of period p, period 1 being January 2024
PeriodMonth(p) == ((p - 1) % 12) + 1
PeriodYear(p) == 2024 + ((p - 1) \div 12)

IsLeap(y) == (y % 4 = 0 /\ y % 100 # 0) \/ y % 400 = 0

\* (period.end_time - period.start_time).days + 1
DaysInPeriod(p) ==
    LET m == PeriodMonth(p)
    IN  IF m = 2 THEN (IF IsLeap(PeriodYear(p)) THEN 29 ELSE 28)
        ELSE IF m \in {4, 6, 9, 11} THEN 30 ELSE 31

Periods == 1..NumPeriods

----------------------------------------------------------------------------
(* Inputs                                                                 *)

\* Robinhood 'Trans Code' values the scripts single out
Codes == {"Buy", "Sell", "CDIV", "SPL"}

\* <<Quantity, Amount>> of a row as exported: an amount of either sign
QtyAmt == {<<1, -16>>, <<2, 1>>}

\* the first and the last day of the month
DaysOf(p) == {1, DaysInPeriod(p)}

TxnRows ==
    UNION {{[Period |-> p, Day |-> d, Code |-> c, Quantity |-> qa[1], Amount |-> qa[2]]
              : d \in DaysOf(p), c \in Codes, qa \in QtyAmt} : p \in Periods}

\* the rows arrive in ascending date order (the ingestion contract)
Chronological(s) ==
    \A i \in 1..(Len(s) - 1) :
        \/ s[i].Period < s[i + 1].Period
        \/ s[i].Period = s[i + 1].Period /\ s[i].Day <= s[i + 1].Day

TxnLists ==
    UNION {{s \in [1..n -> TxnRows] : Chronological(s)} : n \in 1..MaxTx}

\* the price histories drawn: the first and the last close of every month,
\* once the same in every month and once moving from month to month
Histories ==
    {[p \in Periods |-> [first |-> 2, last |-> 3]],
     [p \in Periods |-> [first |-> p + 2, last |-> p]]}

\* a close of month p: missing where the history has no row for the month
\* (reindex, merge how='left')
Close(prices, p, col) ==
    IF p \in DOMAIN prices THEN I(prices[p][col]) ELSE NaN

\* hist['As_of_Date'].unique(): the months from p on that hold a price
RECURSIVE HistPeriods(_, _)
HistPeriods(prices, p) ==
    IF p > NumPeriods THEN <<>>
    ELSE (IF p \in DOMAIN prices THEN <<p>> ELSE <<>>) \o HistPeriods(prices, p + 1)

\* DataFrame.fillna(0)
FillNa0(x) == IF IsNull(x) THEN I(0) ELSE x

----------------------------------------------------------------------------
(* IR: returns/investment_returns.py                                      *)

categorize_transaction(code) ==
    CASE code = "Buy" -> "Buy"
      [] code = "Sell" -> "Sell"
      [] code = "CDIV" -> "Dividend"
      [] code = "SPL" -> "Split"
      [] OTHER -> "Other"

adjust_cash_flow_sign(event_type, amount) ==
    IF event_type = "Buy" THEN Abs(amount)
    ELSE IF event_type = "Sell" THEN -Abs(amount)
    ELSE amount

\* one row of df_stock
PreparedRow(r) ==
    LET ev == categorize_transaction(r.Code)
    IN  [Period |-> r.Period, Day |-> r.Day, Event_Type |-> ev,
         Quantity |-> r.Quantity,
         Adjusted_Amount |-> adjust_cash_flow_sign(ev, r.Amount),
         Cumulative_Shares |-> 0]

IR_load_and_prepare_data ==
    /\ prog = "IR" /\ pc = "load"
    /\ df' = Map(txns, PreparedRow)
    /\ pc' = "shares"
    /\ UNCHANGED <<df_instr, df_port, prog, txns, hist, wcf_table, table>>

\* a Split counted whatever the sign of its quantity
SharesStep_every_split(row) ==
    IF row.Event_Type = "Buy" THEN row.Quantity
    ELSE IF row.Event_Type = "Sell" THEN -row.Quantity
    ELSE IF row.Event_Type = "Split" THEN row.Quantity
    ELSE 0

\* the change of total_shares one row makes
SharesStep(row) ==
    IF row.Event_Type = "Buy" THEN row.Quantity
    ELSE IF row.Event_Type = "Sell" THEN -row.Quantity
    ELSE IF row.Event_Type = "Split" /\ row.Quantity > 0 THEN row.Quantity
    ELSE 0

RECURSIVE TotalShares(_, _)
TotalShares(data, i) ==
    IF i = 0 THEN 0 ELSE TotalShares(data, i - 1) + SharesStep(data[i])

calculate_cumulative_shares(data) ==
    [i \in 1..Len(data) |->
        [data[i] EXCEPT !.Cumulative_Shares = TotalShares(data, i)]]

IsEquityEvent(row) == row.Event_Type \in {"Buy", "Sell", "Split"}

\* main: df_equities = calculate_cumulative_shares(df_stock[Buy, Sell, Split])
IR_calculate_cumulative_shares ==
    /\ prog = "IR" /\ pc = "shares"
    /\ df' = calculate_cumulative_shares(SelectSeq(df, IsEquityEvent))
    /\ pc' = "prices"
    /\ UNCHANGED <<df_instr, df_port, prog, txns, hist, wcf_table, table>>

\* the months of the history fetched from the first activity date on
AllPeriods(first) == [i \in 1..(NumPeriods - first + 1) |-> first + i - 1]

\* a row of the period table, named as in equities_nav.  The other scripts'
\* columns map onto it: Cumulative_Net_Tx (TOST) and shares_eom (PAV) are
\* Shares_EOM, Total_CF and net_cf are Net_CF, bom_nav/eom_nav are NAV_BOM/
\* NAV_EOM, return and md_return are Modified_Dietz_Return.  LTD_Return is the
\* linked series without reset (Geometric_Linked_Return of investment_returns.py,
\* LTD_Return of TOST_return.py, Geometrically_Linked_Return of
\* tost_return_analytics.py) and Reset_Linked_Return the one with reset
\* (Geometrically_Linked_Return of TOST_return.py).
EmptyRow(p) ==
    [As_of_Date |-> p, Shares_BOM |-> 0, Shares_EOM |-> 0,
     BOM_Price |-> NaN, EOM_Price |-> NaN, NAV_BOM |-> NaN, NAV_EOM |-> NaN,
     Net_CF |-> 0, WCF |-> I(0), PnL |-> NaN, Average_Capital |-> NaN,
     Modified_Dietz_Return |-> NaN, Realized_PnL |-> 0, Unrealized_PnL |-> NaN,
     LTD_Return |-> NaN, Reset_Linked_Return |-> NaN]

\* main: hist = fetch_historical_prices(...); all_periods = hist.As_of_Date.unique()
IR_fetch_historical_prices ==
    /\ prog = "IR" /\ pc = "prices"
    /\ table' = Map(HistPeriods(hist, txns[1].Period), EmptyRow)
    /\ pc' = "wcf"
    /\ UNCHANGED <<df_instr, df_port, prog, txns, hist, df, wcf_table>>

\* W_i of a transaction on day `day` of a period of T days
WcfWeight(T, day) ==
    LET t_i == (day - 1) + 1
    IN  Norm(T - t_i + 1, T)

WcfRow(period, row) ==
    LET T == DaysInPeriod(period)
        W_i == WcfWeight(T, row.Day)
    IN  [As_of_Date |-> period, Day |-> row.Day, Event_Type |-> row.Event_Type,
         Amount |-> row.Adjusted_Amount, T |-> T, W_i |-> W_i,
         Weighted_Contribution |-> FMul(W_i, I(row.Adjusted_Amount))]

RECURSIVE WcfRows(_, _, _)
WcfRows(transactions, periods, k) ==
    IF k > Len(periods) THEN <<>>
    ELSE LET inPeriod(row) == row.Period = periods[k]
             wcfRow(row) == WcfRow(periods[k], row)
         IN  Map(SelectSeq(transactions, inPeriod), wcfRow)
               \o WcfRows(transactions, periods, k + 1)

calculate_wcf_table(transactions, periods) == WcfRows(transactions, periods, 1)

AsOfDate(row) == row.As_of_Date

IR_calculate_wcf_table ==
    /\ prog = "IR" /\ pc = "wcf"
    /\ wcf_table' = calculate_wcf_table(df, Map(table, AsOfDate))
    /\ pc' = "nav"
    /\ UNCHANGED <<df_instr, df_port, prog, txns, hist, df, table>>

\* rows of `data` dated in period p
RowsIn(data, p) == LET inPeriod(row) == row.Period = p IN SelectSeq(data, inPeriod)

IsBuyOrSell(row) == row.Event_Type \in {"Buy", "Sell"}

AdjustedAmount(row) == row.Adjusted_Amount

\* groupby('Period').agg(Shares_EOM=('Cumulative_Shares', 'last')), left-merged
\* on the periods, then fillna(method='ffill').fillna(0)
RECURSIVE SharesEOM(_, _, _)
SharesEOM(df_equities, periods, k) ==
    LET rows == RowsIn(df_equities, periods[k])
    IN  IF rows # <<>> THEN rows[Len(rows)].Cumulative_Shares
        ELSE IF k = 1 THEN 0
        ELSE SharesEOM(df_equities, periods, k - 1)

\* the shift forgotten: the period's own closing position
SharesBOM_unshifted(df_equities, periods, k) == SharesEOM(df_equities, periods, k)

\* Shares_EOM.shift(1, fill_value=0)
SharesBOM(df_equities, periods, k) ==
    IF k = 1 THEN 0 ELSE SharesEOM(df_equities, periods, k - 1)

\* Net_CF: the Buy and Sell rows of the period, 0 where the period has none
NetCF(df_equities, p) ==
    SumSeq(Map(SelectSeq(RowsIn(df_equities, p), IsBuyOrSell), AdjustedAmount))

calculate_equity_nav(df_equities, prices, all_periods) ==
    [k \in 1..Len(all_periods) |->
        LET p == all_periods[k].As_of_Date
            periods == Map(all_periods, AsOfDate)
            eom == SharesEOM(df_equities, periods, k)
            bom == SharesBOM(df_equities, periods, k)
        IN  [all_periods[k] EXCEPT
                !.Shares_EOM = eom,
                !.Shares_BOM = bom,
                !.BOM_Price = Close(prices, p, "first"),
                !.EOM_Price = Close(prices, p, "last"),
                !.NAV_BOM = FMul(Close(prices, p, "first"), I(bom)),
                !.NAV_EOM = FMul(Close(prices, p, "last"), I(eom)),
                !.Net_CF = NetCF(df_equities, p)]]

IR_calculate_equity_nav ==
    /\ prog = "IR" /\ pc = "nav"
    /\ table' = calculate_equity_nav(df, hist, table)
    /\ pc' = "metrics"
    /\ UNCHANGED <<df_instr, df_port, prog, txns, hist, df, wcf_table>>

WeightedContribution(row) == row.Weighted_Contribution

\* groupby('As_of_Date').agg(WCF=sum), left-merged, fillna(0)
WcfOfPeriod(wcf_rows, p) ==
    LET inPeriod(row) == row.As_of_Date = p
    IN  FSumSeq(Map(SelectSeq(wcf_rows, inPeriod), WeightedContribution))

\* Series.replace([inf, -inf], None)
ReplaceInf(x) == IF IsInf(x) THEN None ELSE x

\* the capital base taken without weighting: the whole net flow of the period
MetricsRow_unweighted(row, wcf) ==
    LET pnl == FSub(FSub(row.NAV_EOM, row.NAV_BOM), I(row.Net_CF))
        average_capital == FAdd(row.NAV_BOM, I(row.Net_CF))
    IN  [row EXCEPT
            !.WCF = wcf,
            !.PnL = pnl,
            !.Average_Capital = average_capital,
            !.Modified_Dietz_Return = ReplaceInf(FDiv(pnl, average_capital))]

MetricsRow(row, wcf) ==
    LET pnl == FSub(FSub(row.NAV_EOM, row.NAV_BOM), I(row.Net_CF))
        average_capital == FAdd(row.NAV_BOM, wcf)
    IN  [row EXCEPT
            !.WCF = wcf,
            !.PnL = pnl,
            !.Average_Capital = average_capital,
            !.Modified_Dietz_Return = ReplaceInf(FDiv(pnl, average_capital))]

calculate_metrics(equities_nav, wcf_rows) ==
    [k \in 1..Len(equities_nav) |->
        MetricsRow(equities_nav[k], WcfOfPeriod(wcf_rows, equities_nav[k].As_of_Date))]

\* an empty wcf_table is a frame without columns: groupby('As_of_Date') raises
IR_calculate_metrics ==
    /\ prog = "IR" /\ pc = "metrics"
    /\ \/ /\ wcf_table # <<>>
          /\ table' = calculate_metrics(table, wcf_table)
          /\ pc' = "link"
       \/ /\ wcf_table = <<>>
          /\ pc' = "raised"
          /\ UNCHANGED table
    /\ UNCHANGED <<df_instr, df_port, prog, txns, hist, df, wcf_table>>

----------------------------------------------------------------------------
(* TOST: TOST_return.py, a flat script                                    *)

IsBuySellCode(r) == r.Code \in {"Buy", "Sell"}

\* lines 20-23: both branches of the lambda negate the exported amount
TOST_Amount(code, amount) == IF code = "Buy" THEN -amount ELSE -amount

\* lines 31-36: Weight_Numerator / Days_in_Period
TOST_Weight(T, day) ==
    LET Days_Before_Tx == (day - 1) + 1
        Weight_Numerator == T - Days_Before_Tx + 1
    IN  Norm(Weight_Numerator, T)

TOST_Row(r) ==
    LET amount == TOST_Amount(r.Code, r.Amount)
        weight == TOST_Weight(DaysInPeriod(r.Period), r.Day)
    IN  [Period |-> r.Period, Day |-> r.Day, Code |-> r.Code,
         Quantity |-> r.Quantity, Amount |-> amount, Weight |-> weight,
         Weighted_CF |-> FMul(weight, I(amount)),
         Net_Tx |-> IF r.Code = "Buy" THEN r.Quantity ELSE -r.Quantity]

\* lines 10-39 and 59-61: df_tost
TOST_prepare ==
    /\ prog = "TOST" /\ pc = "load"
    /\ df' = Map(SelectSeq(txns, IsBuySellCode), TOST_Row)
    /\ pc' = "periods"
    /\ UNCHANGED <<df_instr, df_port, prog, txns, hist, wcf_table, table>>

RowAmount(row) == row.Amount
RowWeightedCF(row) == row.Weighted_CF
RowNetTx(row) == row.Net_Tx

\* Net_Tx.cumsum() up to the k-th period
RECURSIVE TOST_Cumulative_Net_Tx(_, _, _)
TOST_Cumulative_Net_Tx(df_tost, periods, k) ==
    IF k = 0 THEN 0
    ELSE TOST_Cumulative_Net_Tx(df_tost, periods, k - 1)
           + SumSeq(Map(RowsIn(df_tost, periods[k]), RowNetTx))

\* lines 48-78: the period table, its grouped flows (missing filled with 0)
\* and the NAV at both ends
TOST_PeriodData(df_tost, prices, periods) ==
    [k \in 1..Len(periods) |->
        LET p == periods[k]
            rows == RowsIn(df_tost, p)
            cum == TOST_Cumulative_Net_Tx(df_tost, periods, k)
            prev == TOST_Cumulative_Net_Tx(df_tost, periods, k - 1)
        IN  [EmptyRow(p) EXCEPT
                !.BOM_Price = FillNa0(Close(prices, p, "first")),
                !.EOM_Price = FillNa0(Close(prices, p, "last")),
                !.Net_CF = SumSeq(Map(rows, RowAmount)),
                !.WCF = FSumSeq(Map(rows, RowWeightedCF)),
                !.Shares_EOM = cum,
                !.Shares_BOM = prev,
                !.NAV_BOM = FMul(FillNa0(Close(prices, p, "first")), I(prev)),
                !.NAV_EOM = FMul(FillNa0(Close(prices, p, "last")), I(cum))]]

\* without a Buy or Sell row the first period is NaT and period_range raises
TOST_period_data ==
    /\ prog = "TOST" /\ pc = "periods"
    /\ \/ /\ df # <<>>
          /\ table' = TOST_PeriodData(df, hist, AllPeriods(df[1].Period))
          /\ pc' = "metrics"
       \/ /\ df = <<>>
          /\ pc' = "raised"
          /\ UNCHANGED table
    /\ UNCHANGED <<df_instr, df_port, prog, txns, hist, df, wcf_table>>

\* lines 80-87
TOST_MetricsRow(row) ==
    LET pnl == FSub(FSub(row.NAV_EOM, row.NAV_BOM), I(row.Net_CF))
        average_capital == FAdd(row.NAV_BOM, row.WCF)
    IN  [row EXCEPT
            !.PnL = pnl,
            !.Average_Capital = average_capital,
            !.Modified_Dietz_Return = ReplaceInf(FDiv(pnl, average_capital))]

TOST_metrics ==
    /\ prog = "TOST" /\ pc = "metrics"
    /\ table' = Map(table, TOST_MetricsRow)
    /\ pc' = "link"
    /\ UNCHANGED <<df_instr, df_port, prog, txns, hist, df, wcf_table>>

----------------------------------------------------------------------------
(* TRA: tost_return_analytics.py, the same flat script with every Trans   *)
(* Code of the instrument kept and the option codes told apart            *)

\* adjust_amount, lines 20-30
TRA_adjust_amount(code, amount) ==
    IF code \in {"Buy", "BTO"} THEN -amount
    ELSE IF code \in {"Sell", "STC"} THEN amount
    ELSE IF code \in {"STO"} THEN amount
    ELSE IF code \in {"BTC"} THEN -amount
    ELSE 0

\* calculate_net_tx, lines 67-77
TRA_calculate_net_tx(code, quantity) ==
    IF code \in {"Buy", "BTO"} THEN quantity
    ELSE IF code \in {"Sell", "STC"} THEN -quantity
    ELSE IF code \in {"STO"} THEN -quantity
    ELSE IF code \in {"BTC"} THEN quantity
    ELSE 0

TRA_Row(r) ==
    LET amount == TRA_adjust_amount(r.Code, r.Amount)
        weight == TOST_Weight(DaysInPeriod(r.Period), r.Day)
    IN  [Period |-> r.Period, Day |-> r.Day, Code |-> r.Code,
         Quantity |-> r.Quantity, Amount |-> amount, Weight |-> weight,
         Weighted_CF |-> FMul(weight, I(amount)),
         Net_Tx |-> TRA_calculate_net_tx(r.Code, r.Quantity)]

\* lines 10-50 and 79: df_tost
TRA_prepare ==
    /\ prog = "TRA" /\ pc = "load"
    /\ df' = Map(txns, TRA_Row)
    /\ pc' = "periods"
    /\ UNCHANGED <<df_instr, df_port, prog, txns, hist, wcf_table, table>>

----------------------------------------------------------------------------
(* PAV: etl/process_asset_value.py.  One instrument's rows are modelled;  *)
(* market_data holds one price per month (fetch_monthly_market_data's     *)
(* stated assumption), the month's last close.                            *)

RowQuantity(row) == row.Quantity
IsDividendCode(row) == row.Code = "CDIV"

\* the months that have transactions, ascending
RECURSIVE MonthsWithRows(_, _)
MonthsWithRows(transactions, p) ==
    IF p > NumPeriods THEN <<>>
    ELSE (IF RowsIn(transactions, p) # <<>> THEN <<p>> ELSE <<>>)
           \o MonthsWithRows(transactions, p + 1)

\* summarize_transactions: one group of (instrument, txn_month)
PAV_summarize(transactions, p) ==
    LET grp == RowsIn(transactions, p)
        net_cf == SumSeq(Map(grp, RowAmount))
    IN  [year_month |-> p,
         net_cf |-> net_cf,
         net_shares_change |-> SumSeq(Map(grp, RowQuantity)),
         realized_pnl |-> SumSeq(Map(SelectSeq(grp, IsDividendCode), RowAmount)),
         wcf |-> Norm(net_cf, 2)]

\* per_instrument_calc: shares_eom of the k-th merged row
RECURSIVE PAV_shares_eom(_, _, _)
PAV_shares_eom(transactions, months, k) ==
    IF k = 0 THEN 0
    ELSE PAV_shares_eom(transactions, months, k - 1)
           + PAV_summarize(transactions, months[k]).net_shares_change

calculate_asset_values(transactions, prices) ==
    LET priced(p) == p \in DOMAIN prices
        months == SelectSeq(MonthsWithRows(transactions, 1), priced)
    IN  [k \in 1..Len(months) |->
            LET p == months[k]
                agg == PAV_summarize(transactions, p)
                shares_bom == PAV_shares_eom(transactions, months, k - 1)
                shares_eom == shares_bom + agg.net_shares_change
                eom_price == I(prices[p].last)
                bom_price == IF k = 1 THEN eom_price
                             ELSE I(prices[months[k - 1]].last)
                bom_nav == FMul(I(shares_bom), bom_price)
                eom_nav == FMul(I(shares_eom), eom_price)
            IN  [EmptyRow(p) EXCEPT
                    !.Shares_BOM = shares_bom,
                    !.Shares_EOM = shares_eom,
                    !.BOM_Price = bom_price,
                    !.EOM_Price = eom_price,
                    !.NAV_BOM = bom_nav,
                    !.NAV_EOM = eom_nav,
                    !.Net_CF = agg.net_cf,
                    !.WCF = agg.wcf,
                    !.Realized_PnL = agg.realized_pnl,
                    !.Unrealized_PnL = FSub(FSub(eom_nav, bom_nav), I(agg.net_cf)),
                    !.Average_Capital = FAdd(bom_nav, agg.wcf)]]

PAV_calculate_asset_values ==
    /\ prog = "PAV" /\ pc = "load"
    /\ df' = txns
    /\ table' = calculate_asset_values(txns, hist)
    /\ pc' = "done"
    /\ UNCHANGED <<df_instr, df_port, prog, txns, hist, wcf_table>>

----------------------------------------------------------------------------
(* AVR: etl/asset_value_records.py.  One instrument's rows are modelled.  *)
(* Each function is modelled by its arithmetic on the columns it names:   *)
(* start_date.to_timestamp() is read as the period's first instant, and   *)
(* merged['net_cf'] as the transaction summary's net_cf (0.0 where the    *)
(* month has no transactions, as the fillna of line 216 intends).         *)

\* fetch_transactions: the CASE of the query
AVR_amount(code, amount) ==
    IF code = "Buy" THEN Abs(amount)
    ELSE IF code = "Sell" THEN -Abs(amount)
    ELSE amount

AVR_TxnRow(r) == [r EXCEPT !.Amount = AVR_amount(r.Code, r.Amount)]

\* WHERE raw_trans_code IN ('Buy', 'Sell', 'CDIV', 'SPL')
AVR_IsFetched(r) == r.Code \in {"Buy", "Sell", "CDIV", "SPL"}

AVR_fetch_transactions ==
    /\ prog = "AVR" /\ pc = "load"
    /\ df' = Map(SelectSeq(txns, AVR_IsFetched), AVR_TxnRow)
    /\ pc' = "returns"
    /\ UNCHANGED <<df_instr, df_port, prog, txns, hist, wcf_table, table>>

\* calculate_wcf_components, lines 83-89: the weight of one transaction
AVR_weight(total_days, day) ==
    LET t_i == day - 1
    IN  Norm(total_days - t_i + 1, total_days)

AVR_Component(total_days, txn) ==
    LET weight == AVR_weight(total_days, txn.Day)
    IN  [Day |-> txn.Day, cash_flow |-> txn.Amount, t_i |-> txn.Day - 1,
         T |-> total_days, weight |-> weight,
         cash_flow_contribution |-> FMul(I(txn.Amount), weight)]

ComponentContribution(c) == c.cash_flow_contribution

\* calculate_wcf_components: <<wcf, components>>
calculate_wcf_components(txn_group, total_days) ==
    LET component(txn) == AVR_Component(total_days, txn)
        components == Map(txn_group, component)
    IN  <<FSumSeq(Map(components, ComponentContribution)), components>>

\* calculate_wcf_components called on the transactions of one month
AVR_calculate_wcf_components ==
    /\ prog = "AVR" /\ pc = "components"
    /\ wcf_table' = calculate_wcf_components(RowsIn(df, df[1].Period),
                                             DaysInPeriod(df[1].Period))[2]
    /\ pc' = "done"
    /\ UNCHANGED <<df_instr, df_port, prog, txns, hist, df, table>>

\* summarize_transactions: one group of (instrument, year_month)
AVR_summarize(transactions, p) ==
    LET grp == RowsIn(transactions, p)
    IN  [year_month |-> p,
         net_cf |-> SumSeq(Map(grp, RowAmount)),
         net_shares_change |-> SumSeq(Map(grp, RowQuantity)),
         realized_pnl |-> SumSeq(Map(SelectSeq(grp, IsDividendCode), RowAmount))]

RECURSIVE AVR_position(_, _)
AVR_position(transactions, p) ==
    IF p = 0 THEN 0
    ELSE AVR_position(transactions, p - 1)
           + AVR_summarize(transactions, p).net_shares_change

\* calculate_returns.  generate_time_series gives every month from the first
\* transaction to the end of the market data a row with bom_nav = eom_nav =
\* 0.0, and nothing later assigns them.  Shares_BOM, Shares_EOM and the
\* prices are not columns of the result: they record the running sum of
\* net_shares_change and monthly_price, which merged holds beside the NAV.
calculate_returns(transactions, prices) ==
    LET months == AllPeriods(transactions[1].Period)
    IN  [k \in 1..Len(months) |->
            LET p == months[k]
                agg == AVR_summarize(transactions, p)
                bom_nav == I(0)
                eom_nav == I(0)
                wcf == calculate_wcf_components(RowsIn(transactions, p),
                                                DaysInPeriod(p))[1]
                pnl == FSub(FSub(eom_nav, bom_nav), I(agg.net_cf))
                average_capital == FAdd(bom_nav, wcf)
            IN  [EmptyRow(p) EXCEPT
                    !.Shares_BOM = AVR_position(transactions, p - 1),
                    !.Shares_EOM = AVR_position(transactions, p),
                    !.BOM_Price = I(prices[p].last),
                    !.EOM_Price = I(prices[p].last),
                    !.NAV_BOM = bom_nav,
                    !.NAV_EOM = eom_nav,
                    !.Net_CF = agg.net_cf,
                    !.WCF = wcf,
                    !.Realized_PnL = agg.realized_pnl,
                    !.PnL = pnl,
                    !.Average_Capital = average_capital,
                    !.Modified_Dietz_Return = FDiv(pnl, average_capital)]]

AVR_calculate_returns ==
    /\ prog = "AVR" /\ pc = "returns"
    /\ table' = calculate_returns(df, hist)
    /\ pc' = "pnl"
    /\ UNCHANGED <<df_instr, df_port, prog, txns, hist, df, wcf_table>>

AVR_IsRealized(r) == r.Code \in {"Sell", "CDIV"}

\* calculate_realized_unrealized_pnl: the amounts of the Sell and CDIV rows
\* are added to realized_pnl of their month, and unrealized_pnl is pnl less
\* realized_pnl
calculate_realized_unrealized_pnl(merged, transactions) ==
    [k \in 1..Len(merged) |->
        LET rows == SelectSeq(RowsIn(transactions, merged[k].As_of_Date),
                              AVR_IsRealized)
            realized_pnl == merged[k].Realized_PnL + SumSeq(Map(rows, RowAmount))
        IN  [merged[k] EXCEPT
                !.Realized_PnL = realized_pnl,
                !.Unrealized_PnL = FSub(merged[k].PnL, I(realized_pnl))]]

AVR_calculate_realized_unrealized_pnl ==
    /\ prog = "AVR" /\ pc = "pnl"
    /\ table' = calculate_realized_unrealized_pnl(table, df)
    /\ pc' = "done"
    /\ UNCHANGED <<df_instr, df_port, prog, txns, hist, df, wcf_table>>

----------------------------------------------------------------------------
(* The scripts run on a transaction list and a price history              *)

Init ==
    /\ df_instr = <<>>
    /\ df_port = <<>>
    /\ prog \in {"IR", "TOST", "PAV", "AVR"}
    /\ pc = "load"
    /\ txns \in TxnLists
    /\ hist \in Histories
    /\ df = <<>>
    /\ wcf_table = <<>>
    /\ table = <<>>

Next ==
    \/ IR_load_and_prepare_data
    \/ IR_calculate_cumulative_shares
    \/ IR_fetch_historical_prices
    \/ IR_calculate_wcf_table
    \/ IR_calculate_equity_nav
    \/ IR_calculate_metrics
    \/ TOST_prepare
    \/ TOST_period_data
    \/ TOST_metrics
    \/ PAV_calculate_asset_values
    \/ AVR_fetch_transactions
    \/ AVR_calculate_returns
    \/ AVR_calculate_realized_unrealized_pnl

Spec == Init /\ [][Next]_vars

----------------------------------------------------------------------------
(* The metrics stage on one month: calculate_metrics of                   *)
(* investment_returns.py and lines 80-87 of TOST_return.py, applied to the*)
(* row the stages before them leave for a month of 30 days                *)

\* April 2024
MetricsPeriods == {4}

MetricsTxnRows(p) ==
    {[Period |-> p, Day |-> d, Code |-> c, Quantity |-> 6, Amount |-> a]
        : d \in {1, 15, DaysInPeriod(p)}, c \in {"Buy", "Sell"}, a \in {-500, 500}}

MetricsTxnLists(p) ==
    UNION {{s \in [1..n -> MetricsTxnRows(p)] : Chronological(s)} : n \in 0..MaxTx}

\* df_equities of the month when the month opened with shares_bom shares
IR_MetricsFrame(rows, shares_bom) ==
    LET data == calculate_cumulative_shares(Map(rows, PreparedRow))
    IN  [i \in 1..Len(data) |->
            [data[i] EXCEPT !.Cumulative_Shares = shares_bom + data[i].Cumulative_Shares]]

\* the month's row of equities_nav as calculate_equity_nav leaves it
IR_MetricsInput(p, df_equities, shares_bom, prices) ==
    LET shares_eom == IF df_equities = <<>> THEN shares_bom
                      ELSE df_equities[Len(df_equities)].Cumulative_Shares
    IN  [EmptyRow(p) EXCEPT
            !.Shares_BOM = shares_bom,
            !.Shares_EOM = shares_eom,
            !.BOM_Price = I(prices.first),
            !.EOM_Price = I(prices.last),
            !.NAV_BOM = FMul(I(prices.first), I(shares_bom)),
            !.NAV_EOM = FMul(I(prices.last), I(shares_eom)),
            !.Net_CF = NetCF(df_equities, p)]

\* the month's row of period_data as lines 48-78 of TOST_return.py leave it
TOST_MetricsInput(p, df_tost, shares_bom, prices) ==
    LET shares_eom == shares_bom + SumSeq(Map(df_tost, RowNetTx))
    IN  [EmptyRow(p) EXCEPT
            !.Shares_BOM = shares_bom,
            !.Shares_EOM = shares_eom,
            !.BOM_Price = I(prices.first),
            !.EOM_Price = I(prices.last),
            !.Net_CF = SumSeq(Map(df_tost, RowAmount)),
            !.WCF = FSumSeq(Map(df_tost, RowWeightedCF)),
            !.NAV_BOM = FMul(I(prices.first), I(shares_bom)),
            !.NAV_EOM = FMul(I(prices.last), I(shares_eom))]

\* a month without any transaction has nothing before it either
InitMetrics ==
    /\ df_instr = <<>>
    /\ df_port = <<>>
    /\ prog \in {"IR", "TOST"}
    /\ pc = "metrics"
    /\ \E p \in MetricsPeriods, shares_bom \in {0, 10}, last \in {50, 100} :
          /\ hist = [q \in {p} |-> [first |-> 100, last |-> last]]
          /\ txns \in {s \in MetricsTxnLists(p) : s = <<>> => shares_bom = 0}
          /\ df = IF prog = "IR" THEN IR_MetricsFrame(txns, shares_bom)
                  ELSE Map(txns, TOST_Row)
          /\ wcf_table = IF prog = "IR" THEN calculate_wcf_table(df, <<p>>) ELSE <<>>
          /\ table = IF prog = "IR"
                     THEN <<IR_MetricsInput(p, df, shares_bom, hist[p])>>
                     ELSE <<TOST_MetricsInput(p, df, shares_bom, hist[p])>>

NextMetrics ==
    \/ IR_calculate_metrics
    \/ TOST_metrics

SpecMetrics == InitMetrics /\ [][NextMetrics]_vars

----------------------------------------------------------------------------
(* The weighting on its own: calculate_wcf_table, lines 28-39 of          *)
(* TOST_return.py and calculate_wcf_components, applied to transactions on*)
(* every day of a month of 28, 29, 30 and 31 days                         *)

\* February 2025, February 2024, April 2024, January 2024
WeightPeriods == {14, 2, 4, 1}

WeightTxnRows(p) ==
    {[Period |-> p, Day |-> d, Code |-> "Buy", Quantity |-> 1, Amount |-> -16]
        : d \in 1..DaysInPeriod(p)}

WeightTxnLists(p) ==
    UNION {{s \in [1..n -> WeightTxnRows(p)] : Chronological(s)} : n \in 1..MaxTx}

InitWeight ==
    /\ df_instr = <<>>
    /\ df_port = <<>>
    /\ prog \in {"IR", "TOST", "AVR"}
    /\ \E p \in WeightPeriods :
          /\ txns \in WeightTxnLists(p)
          /\ hist = [q \in {p} |-> [first |-> 2, last |-> 3]]
          /\ table = IF prog = "IR" THEN <<EmptyRow(p)>> ELSE <<>>
    /\ pc = CASE prog = "IR" -> "wcf"
              [] prog = "TOST" -> "load"
              [] prog = "AVR" -> "components"
    /\ df = CASE prog = "IR" -> calculate_cumulative_shares(Map(txns, PreparedRow))
              [] prog = "TOST" -> <<>>
              [] prog = "AVR" -> Map(txns, AVR_TxnRow)
    /\ wcf_table = <<>>

NextWeight ==
    \/ IR_calculate_wcf_table
    \/ TOST_prepare
    \/ AVR_calculate_wcf_components

SpecWeighting == InitWeight /\ [][NextWeight]_vars

\* the weights computed, as <<day, days of the month, weight>>
WeightsComputed ==
    CASE prog = "IR" ->
           {<<wcf_table[i].Day, wcf_table[i].T, wcf_table[i].W_i>> : i \in 1..Len(wcf_table)}
      [] prog = "TOST" ->
           {<<df[i].Day, DaysInPeriod(df[i].Period), df[i].Weight>> : i \in 1..Len(df)}
      [] prog = "AVR" ->
           {<<wcf_table[i].Day, wcf_table[i].T, wcf_table[i].weight>> : i \in 1..Len(wcf_table)}
      [] OTHER -> {}

----------------------------------------------------------------------------
(* Geometric linking: calculate_geometric_returns of investment_returns.py,*)
(* lines 89-115 of TOST_return.py and lines 107-110 of                    *)
(* tost_return_analytics.py (prog "TRA"), applied to a period table whose *)
(* return and position columns are drawn                                  *)

MaxLinked == 3

\* a missing return multiplied in like any other
RECURSIVE IR_cumulative_unguarded(_, _)
IR_cumulative_unguarded(equities_nav, k) ==
    IF k = 0 THEN I(1)
    ELSE FMul(IR_cumulative_unguarded(equities_nav, k - 1),
              FAdd(I(1), AsFloat(equities_nav[k].Modified_Dietz_Return)))

\* cumulative_return after the first k rows: a missing return is skipped
RECURSIVE IR_cumulative_return(_, _)
IR_cumulative_return(equities_nav, k) ==
    IF k = 0 THEN I(1)
    ELSE LET prev == IR_cumulative_return(equities_nav, k - 1)
             md_return == equities_nav[k].Modified_Dietz_Return
         IN  IF ~IsNull(md_return) THEN FMul(prev, FAdd(I(1), md_return))
             ELSE prev

calculate_geometric_returns(equities_nav) ==
    [k \in 1..Len(equities_nav) |->
        [equities_nav[k] EXCEPT
            !.LTD_Return = FSub(IR_cumulative_return(equities_nav, k), I(1))]]

IR_calculate_geometric_returns ==
    /\ prog = "IR" /\ pc = "link"
    /\ table' = calculate_geometric_returns(table)
    /\ pc' = "done"
    /\ UNCHANGED <<df_instr, df_port, prog, txns, hist, df, wcf_table>>

\* 1 + Modified_Dietz_Return / 100, NaN where the return is missing
PercentFactor(row) ==
    FAdd(I(1), FDiv(AsFloat(row.Modified_Dietz_Return), I(100)))

\* Series.cumprod() up to row k: a missing factor is passed over
RECURSIVE CumProd(_, _)
CumProd(period_data, k) ==
    IF k = 0 THEN I(1)
    ELSE LET prev == CumProd(period_data, k - 1)
             factor == PercentFactor(period_data[k])
         IN  IF factor = NaN THEN prev ELSE FMul(prev, factor)

\* ((1 + Modified_Dietz_Return / 100).cumprod() - 1) * 100; the entry of a
\* missing factor is NaN
PercentLinked(period_data) ==
    [k \in 1..Len(period_data) |->
        [period_data[k] EXCEPT
            !.LTD_Return =
                IF PercentFactor(period_data[k]) = NaN THEN NaN
                ELSE FMul(FSub(CumProd(period_data, k), I(1)), I(100))]]

\* TOST_return.py lines 108-112
TOST_LTD_Return ==
    /\ prog = "TOST" /\ pc = "link"
    /\ table' = PercentLinked(table)
    /\ pc' = "reset"
    /\ UNCHANGED <<df_instr, df_port, prog, txns, hist, df, wcf_table>>

\* the period's own return emitted whatever the position is: no reset
TOST_linked_return_own(d, k) ==
    IF k = 0 THEN I(0) ELSE AsFloat(d[k].Modified_Dietz_Return)

\* calculate_geometric_linked_returns: linked_return after row k
RECURSIVE TOST_linked_return(_, _)
TOST_linked_return(d, k) ==
    IF k = 0 THEN I(0)
    ELSE IF d[k].Shares_EOM = 0 THEN I(0)
    ELSE LET linked_return == TOST_linked_return(d, k - 1)
         IN  FMul(FSub(FMul(FAdd(I(1), FDiv(linked_return, I(100))),
                            FAdd(I(1), FDiv(d[k].Modified_Dietz_Return, I(100)))),
                       I(1)),
                  I(100))

calculate_geometric_linked_returns(d) ==
    [k \in 1..Len(d) |-> [d[k] EXCEPT !.Reset_Linked_Return = TOST_linked_return(d, k)]]

\* TOST_return.py lines 89-106 and 114-115.  A row read by iterrows keeps a
\* None, and None / 100 raises TypeError.
TOST_Geometrically_Linked_Return ==
    /\ prog = "TOST" /\ pc = "reset"
    /\ \/ /\ \A k \in 1..Len(table) :
                 table[k].Shares_EOM = 0 \/ table[k].Modified_Dietz_Return # None
          /\ table' = calculate_geometric_linked_returns(table)
          /\ pc' = "done"
       \/ /\ \E k \in 1..Len(table) :
                 table[k].Shares_EOM # 0 /\ table[k].Modified_Dietz_Return = None
          /\ pc' = "raised"
          /\ UNCHANGED table
    /\ UNCHANGED <<df_instr, df_port, prog, txns, hist, df, wcf_table>>

\* tost_return_analytics.py lines 107-110
TRA_Geometrically_Linked_Return ==
    /\ prog = "TRA" /\ pc = "link"
    /\ table' = PercentLinked(table)
    /\ pc' = "done"
    /\ UNCHANGED <<df_instr, df_port, prog, txns, hist, df, wcf_table>>

\* the returns drawn: a gain and a loss of a half, 0/0 (NaN) and a replaced
\* infinity (None)
LinkReturns == {<<1, 2>>, <<-1, 2>>, NaN, None}

\* a row of the period table with the columns the linking reads
LinkRow(k, r, shares) ==
    [EmptyRow(k) EXCEPT !.Modified_Dietz_Return = r, !.Shares_EOM = shares]

\* returns of 0.05 and 0.03 in two months with a position
ExampleTable == <<LinkRow(1, <<1, 20>>, 1), LinkRow(2, <<3, 100>>, 1)>>

LinkTables ==
    {ExampleTable} \cup
    UNION {{[k \in 1..n |-> LinkRow(k, rs[k][1], rs[k][2])]
              : rs \in [1..n -> LinkReturns \X {0, 1}]} : n \in 1..MaxLinked}

InitLink ==
    /\ df_instr = <<>>
    /\ df_port = <<>>
    /\ prog \in {"IR", "TOST", "TRA"}
    /\ pc = "link"
    /\ txns = <<>>
    /\ hist = <<>>
    /\ df = <<>>
    /\ wcf_table = <<>>
    /\ table \in LinkTables

NextLink ==
    \/ IR_calculate_geometric_returns
    \/ TOST_LTD_Return
    \/ TOST_Geometrically_Linked_Return
    \/ TRA_Geometrically_Linked_Return

SpecLink == InitLink /\ [][NextLink]_vars

\* the linked series without reset is in the table
Linked == pc \in {"reset", "done"}

\* every per-period return is defined
AllDefined == \A k \in 1..Len(table) : IsFinite(table[k].Modified_Dietz_Return)

----------------------------------------------------------------------------
(* PD: analytics/performance/performance_dashboard.py.  A row of          *)
(* asset_value_view is [instrument, period_end_date, md_return], a row of *)
(* portfolio_monthly_agg is [period_end_date, md_return].  A date is      *)
(* <<month, day>>, the month counted as the periods are: 1 is January     *)
(* 2024, 0 is December 2023.                                              *)

DateLeq(a, b) == a[1] < b[1] \/ (a[1] = b[1] /\ a[2] <= b[2])

DateLess(a, b) == a[1] < b[1] \/ (a[1] = b[1] /\ a[2] < b[2])

\* Timestamp.replace(day=1)
ReplaceDay1(date) == <<date[1], 1>>

\* the first day of the date's own month
FirstOfSameMonth(date) == <<date[1], 1>>

\* Timestamp.replace(month=1, day=1)
ReplaceMonth1Day1(date) == <<date[1] - (PeriodMonth(date[1]) - 1), 1>>

\* the months added instead of taken off
PlusMonths(date, k) == <<date[1] + k, date[2]>>

\* date - pd.DateOffset(months=k): the same day of the month k months
\* earlier, or that month's last day where it is shorter
MinusMonths(date, k) ==
    LET m == date[1] - k
    IN  <<m, IF date[2] > DaysInPeriod(m) THEN DaysInPeriod(m) ELSE date[2]>>

\* data["period_end_date"].max()
RECURSIVE MaxDate(_)
MaxDate(data) ==
    IF Len(data) = 1 THEN data[1].period_end_date
    ELSE LET rest == MaxDate(Tail(data))
         IN  IF DateLeq(rest, data[1].period_end_date)
             THEN data[1].period_end_date ELSE rest

\* (1 + data["md_return"]).prod(skipna=True) over the first k rows
RECURSIVE ProdSkipNa(_, _)
ProdSkipNa(data, k) ==
    IF k = 0 THEN I(1)
    ELSE LET factor == FAdd(I(1), AsFloat(data[k].md_return))
         IN  IF factor = NaN THEN ProdSkipNa(data, k - 1)
             ELSE FMul(ProdSkipNa(data, k - 1), factor)

\* the monthly returns added up instead of linked
RECURSIVE SumSkipNa(_, _)
SumSkipNa(data, k) ==
    IF k = 0 THEN I(0)
    ELSE IF IsNull(data[k].md_return) THEN SumSkipNa(data, k - 1)
    ELSE FAdd(SumSkipNa(data, k - 1), data[k].md_return)

calculate_twr_arithmetic(data) ==
    IF Len(data) = 0 THEN None ELSE SumSkipNa(data, Len(data))

calculate_twr(data) ==
    IF Len(data) = 0 THEN None
    ELSE FSub(ProdSkipNa(data, Len(data)), I(1))

\* the cutoff date itself taken into the window
trailing_data_inclusive(data, months) ==
    LET cutoff_date == MinusMonths(MaxDate(data), months)
        trailing(row) == DateLeq(cutoff_date, row.period_end_date)
    IN  SelectSeq(data, trailing)

\* lines 92-96
trailing_data(data, months) ==
    LET cutoff_date == MinusMonths(MaxDate(data), months)
        trailing(row) == DateLess(cutoff_date, row.period_end_date)
    IN  SelectSeq(data, trailing)

calculate_trailing_return(data, months) ==
    IF Len(data) = 0 THEN None
    ELSE calculate_twr(trailing_data(data, months))

\* the months counted from the quarter's second month
months_into_quarter_late(current_month) == current_month % 3

months_into_quarter(current_month) == (current_month - 1) % 3

\* lines 118-130, and the same lines 208-220 of calculate_portfolio_returns
mtd_data(data, latest_month) ==
    LET mtd_start == ReplaceDay1(latest_month)
        from(row) == DateLeq(mtd_start, row.period_end_date)
    IN  SelectSeq(data, from)

qtd_data(data, latest_month) ==
    LET current_month == PeriodMonth(latest_month[1])
        qtd_start == MinusMonths(ReplaceDay1(latest_month),
                                 months_into_quarter(current_month))
        from(row) == DateLeq(qtd_start, row.period_end_date)
    IN  SelectSeq(data, from)

ytd_data(data, latest_month) ==
    LET ytd_start == ReplaceMonth1Day1(latest_month)
        from(row) == DateLeq(ytd_start, row.period_end_date)
    IN  SelectSeq(data, from)

\* df.groupby("instrument"): the keys and one group, sorted by date (the
\* view's rows arrive ordered by instrument and period_end_date)
InstrumentsOf(d) == {d[i].instrument : i \in 1..Len(d)}

\* every row of the frame taken for the instrument's group
WholeFrame(d, instrument) == d

GroupOf(d, instrument) ==
    LET ofInstrument(row) == row.instrument = instrument
    IN  SelectSeq(d, ofInstrument)

\* lines 116-140: the summary row of one instrument
InstrumentSummary(instrument, group) ==
    LET latest_month == MaxDate(group)
    IN  [Instrument |-> instrument,
         MTD |-> calculate_twr(mtd_data(group, latest_month)),
         QTD |-> calculate_twr(qtd_data(group, latest_month)),
         YTD |-> calculate_twr(ytd_data(group, latest_month)),
         TTM |-> calculate_trailing_return(group, 12),
         T2Y |-> calculate_trailing_return(group, 24),
         LTD |-> calculate_twr(group)]

\* the orderings of a set of rows in which a stands before b only if
\* <<a, b>> is in before: what sort_values may return, ties in any order
Orderings(rows, before) ==
    {s \in [1..Cardinality(rows) -> rows] :
        /\ \A i, j \in 1..Cardinality(rows) : i # j => s[i] # s[j]
        /\ \A i, j \in 1..Cardinality(rows) : i < j => <<s[i], s[j]>> \in before}

\* sort_values(by="LTD", ascending=False)
LtdDescending(a, b) == FLeq(b.LTD, a.LTD)

\* the summaries calculate_linked_returns may return
calculate_linked_returns(d) ==
    LET summary == {InstrumentSummary(i, GroupOf(d, i)) : i \in InstrumentsOf(d)}
    IN  Orderings(summary,
                  {ab \in summary \X summary : LtdDescending(ab[1], ab[2])})

\* portfolio_twr
portfolio_twr(data) ==
    LET fillna(row) == [row EXCEPT !.md_return =
                            IF IsNull(row.md_return) THEN I(0) ELSE row.md_return]
        filled == Map(data, fillna)
    IN  IF data = <<>> THEN None
        ELSE FSub(ProdSkipNa(filled, Len(filled)), I(1))

\* lines 222-228
ttm_data(d, latest_month) ==
    LET ttm_cutoff == MinusMonths(latest_month, 12)
        after(row) == DateLess(ttm_cutoff, row.period_end_date)
    IN  SelectSeq(d, after)

t2y_data(d, latest_month) ==
    LET t2y_cutoff == MinusMonths(latest_month, 24)
        after(row) == DateLess(t2y_cutoff, row.period_end_date)
    IN  SelectSeq(d, after)

\* calculate_portfolio_returns: {} for an empty frame
calculate_portfolio_returns(d) ==
    IF d = <<>> THEN <<>>
    ELSE LET latest_month == MaxDate(d)
         IN  [Instrument |-> "PORTFOLIO",
              MTD |-> portfolio_twr(mtd_data(d, latest_month)),
              QTD |-> portfolio_twr(qtd_data(d, latest_month)),
              YTD |-> portfolio_twr(ytd_data(d, latest_month)),
              TTM |-> portfolio_twr(ttm_data(d, latest_month)),
              T2Y |-> portfolio_twr(t2y_data(d, latest_month)),
              LTD |-> portfolio_twr(d)]

\* main, lines 245-250: without instrument rows main returns
PD_calculate_linked_returns ==
    /\ prog = "PD" /\ pc = "load"
    /\ \/ /\ df_instr = <<>>
          /\ pc' = "done"
          /\ UNCHANGED table
       \/ /\ df_instr # <<>>
          /\ table' \in calculate_linked_returns(df_instr)
          /\ pc' = "portfolio"
    /\ UNCHANGED <<df_instr, df_port, prog, txns, hist, df, wcf_table>>

\* the sort of the instrument summary taken over for the combined table
LtdOnly(a, b) == LtdDescending(a, b)

\* sort_values(by=["is_portfolio", "LTD"], ascending=[True, False])
CombinedOrder(a, b) ==
    LET is_portfolio(row) == row.Instrument = "PORTFOLIO"
    IN  \/ ~is_portfolio(a) /\ is_portfolio(b)
        \/ is_portfolio(a) = is_portfolio(b) /\ LtdDescending(a, b)

\* main, lines 252-275
PD_combine ==
    /\ prog = "PD" /\ pc = "portfolio"
    /\ \/ /\ df_port = <<>>
          /\ UNCHANGED table
       \/ /\ df_port # <<>>
          /\ LET combined == {table[i] : i \in 1..Len(table)}
                                \cup {calculate_portfolio_returns(df_port)}
             IN  table' \in Orderings(combined,
                                      {ab \in combined \X combined :
                                          CombinedOrder(ab[1], ab[2])})
    /\ pc' = "done"
    /\ UNCHANGED <<df_instr, df_port, prog, txns, hist, df, wcf_table>>

----------------------------------------------------------------------------
(* The dashboard on its own: the two views hold month-end rows of up to   *)
(* 26 consecutive months ending in any month of 2024, 2025 or early 2026. *)
(* The monthly return is 1 (a factor 2, so that every period taken into or*)
(* left out of a window shows in the product) except in one month, where  *)
(* it is missing or -1/2.                                                 *)

MaxMonth == 26

\* how many months before the latest the series starts
FirstOffsets == {0, 3, 12, 13, 24, 25}

\* how many months before the latest the odd month lies
OddOffsets == {0, 1, 12}

OddReturns == {NaN, <<-1, 2>>}

PeriodEnd(m) == <<m, DaysInPeriod(m)>>

DashSeries(first, last, j, v) ==
    [i \in 1..(last - first + 1) |->
        [period_end_date |-> PeriodEnd(first + i - 1),
         md_return |-> IF first + i - 1 = j THEN v ELSE I(1)]]

InstrumentRows(instrument, series) ==
    [i \in 1..Len(series) |->
        [instrument |-> instrument,
         period_end_date |-> series[i].period_end_date,
         md_return |-> series[i].md_return]]

\* a second instrument with one period: the latest month, or the month
\* before it
SecondInstrument(last) ==
    {<<>>} \cup {InstrumentRows("B", DashSeries(last, last, last, v)) :
                    v \in {<<-1, 2>>, I(1), I(3), NaN}}
           \cup {InstrumentRows("B", DashSeries(last - 1, last - 1, last - 1, I(3)))}

InitDash ==
    /\ prog = "PD" /\ pc = "load"
    /\ txns = <<>> /\ hist = <<>> /\ df = <<>> /\ wcf_table = <<>>
    /\ table = <<>>
    /\ \E last \in 1..MaxMonth, k \in FirstOffsets, o \in OddOffsets,
          v \in OddReturns :
           LET series == DashSeries(last - k, last, last - o, v)
           IN  /\ o <= k
               /\ df_instr \in {a \o b : a \in {<<>>, InstrumentRows("A", series)},
                                          b \in SecondInstrument(last)}
               /\ df_port \in {<<>>, series, DashSeries(last, last, last, I(7))}

NextDash == PD_calculate_linked_returns \/ PD_combine

SpecDash == InitDash /\ [][NextDash]_vars

\* the dashboard has printed its table
Printed == prog = "PD" /\ pc = "done" /\ df_instr # <<>>

----------------------------------------------------------------------------
(* The scripts that merge a price history, on histories with months that  *)
(* hold no price: before the first quote, after the last, or in between   *)

\* transactions on the first day of a month, one share for 16
PriceTxnRows == {r \in TxnRows : r.Day = 1 /\ r.Quantity = 1}

PriceTxnLists ==
    UNION {{s \in [1..n -> PriceTxnRows] : Chronological(s)} : n \in 1..MaxTx}

\* a history restricted to the months of D
Restrict(h, D) == [p \in D |-> h[p]]

PartialHistories == {Restrict(h, D) : h \in Histories, D \in SUBSET Periods}

InitPrices ==
    /\ df_instr = <<>>
    /\ df_port = <<>>
    /\ prog \in {"IR", "TOST", "PAV"}
    /\ pc = "load"
    /\ txns \in PriceTxnLists
    /\ hist \in PartialHistories
    /\ df = <<>>
    /\ wcf_table = <<>>
    /\ table = <<>>

NextPrices ==
    \/ IR_load_and_prepare_data
    \/ IR_calculate_cumulative_shares
    \/ IR_fetch_historical_prices
    \/ IR_calculate_wcf_table
    \/ IR_calculate_equity_nav
    \/ IR_calculate_metrics
    \/ TOST_prepare
    \/ TOST_period_data
    \/ TOST_metrics
    \/ PAV_calculate_asset_values

SpecPrices == InitPrices /\ [][NextPrices]_vars

\* the prices have been merged into the period table
PricesMerged ==
    /\ prog \in {"IR", "TOST", "PAV"}
    /\ pc \in {"metrics", "link", "done", "raised"}

----------------------------------------------------------------------------
(* ING: etl/ingest_transactions.py.  The rows of the CSV in the order of  *)
(* the file, which need not be the order of their dates                   *)

\* code_map.get(code, code), for the codes drawn
standardize_trans_code(code) ==
    CASE code = "BTC" -> "Buy to Close"
      [] code = "BTO" -> "Buy to Open"
      [] code = "Buy" -> "Buy"
      [] code = "CDIV" -> "Dividend"
      [] code = "OEXP" -> "Option Expiration"
      [] code = "Sell" -> "Sell"
      [] code = "SPL" -> "Split"
      [] code = "STC" -> "Sell to Close"
      [] code = "STO" -> "Sell to Open"
      [] OTHER -> code

transaction_priority(code) ==
    IF code \in {"Buy", "BTO", "STO"} THEN 1
    ELSE IF code \in {"Sell", "STC", "BTC"} THEN 2
    ELSE IF code = "OEXP" THEN 3
    ELSE 99

\* lines 150-169: the columns the sort reads, added to row idx of the file
ING_Row(rows, idx) ==
    LET trans_code == standardize_trans_code(rows[idx].Code)
    IN  [Period |-> rows[idx].Period, Day |-> rows[idx].Day,
         Code |-> rows[idx].Code, Quantity |-> rows[idx].Quantity,
         Amount |-> rows[idx].Amount,
         trans_code |-> trans_code,
         trans_priority |-> transaction_priority(trans_code),
         original_idx |-> idx]

\* ascending in (activity_date, trans_priority, original_idx)
ING_KeyLess(a, b) ==
    \/ a.Period < b.Period
    \/ a.Period = b.Period /\ a.Day < b.Day
    \/ a.Period = b.Period /\ a.Day = b.Day /\ a.trans_priority < b.trans_priority
    \/ /\ a.Period = b.Period /\ a.Day = b.Day
       /\ a.trans_priority = b.trans_priority
       /\ a.original_idx < b.original_idx

\* df.sort_values(by=['activity_date', 'trans_priority', 'original_idx'])
ING_sort_values(frame) ==
    LET n == Len(frame)
        order == CHOOSE f \in [1..n -> 1..n] :
                    \A i, j \in 1..n : i < j => ING_KeyLess(frame[f[i]], frame[f[j]])
    IN  [i \in 1..n |-> frame[order[i]]]

ING_ingest_transactions ==
    /\ prog = "ING" /\ pc = "load"
    /\ df' = ING_sort_values([idx \in 1..Len(txns) |-> ING_Row(txns, idx)])
    /\ pc' = "done"
    /\ UNCHANGED <<df_instr, df_port, prog, txns, hist, wcf_table, table>>

\* the codes of opens, closes, expirations and two others
IngestCodes == {"Buy", "BTO", "STO", "Sell", "STC", "BTC", "OEXP", "CDIV", "SPL"}

\* rows of the first two days of January 2024
IngestTxnRows ==
    {[Period |-> 1, Day |-> d, Code |-> c, Quantity |-> 1, Amount |-> -16]
        : d \in {1, 2}, c \in IngestCodes}

IngestTxnLists == UNION {[1..n -> IngestTxnRows] : n \in 1..MaxTx}

InitIngest ==
    /\ df_instr = <<>>
    /\ df_port = <<>>
    /\ prog = "ING"
    /\ pc = "load"
    /\ txns \in IngestTxnLists
    /\ hist = <<>>
    /\ df = <<>>
    /\ wcf_table = <<>>
    /\ table = <<>>

NextIngest == ING_ingest_transactions

SpecIngest == InitIngest /\ [][NextIngest]_vars

----------------------------------------------------------------------------
(* The preparation of the transaction rows on its own: every Trans Code of*)
(* the export, amounts and quantities of either sign                      *)

PrepCodes == Codes \cup {"BTO", "STC", "STO", "BTC", "OEXP"}

\* <<Quantity, Amount>> of a row as exported
PrepQtyAmt == QtyAmt \cup {<<-1, 0>>}

\* rows of the first day of January 2024
PrepTxnRows ==
    {[Period |-> 1, Day |-> 1, Code |-> c, Quantity |-> qa[1], Amount |-> qa[2]]
        : c \in PrepCodes, qa \in PrepQtyAmt}

PrepTxnLists == UNION {[1..n -> PrepTxnRows] : n \in 1..MaxTx}

InitPrepare ==
    /\ df_instr = <<>>
    /\ df_port = <<>>
    /\ prog \in {"IR", "TOST", "TRA", "AVR"}
    /\ pc = "load"
    /\ txns \in PrepTxnLists
    /\ hist = <<>>
    /\ df = <<>>
    /\ wcf_table = <<>>
    /\ table = <<>>

NextPrepare ==
    \/ IR_load_and_prepare_data
    \/ IR_calculate_cumulative_shares
    \/ TOST_prepare
    \/ TRA_prepare
    \/ AVR_fetch_transactions

SpecPrepare == InitPrepare /\ [][NextPrepare]_vars

----------------------------------------------------------------------------
(* What the specification says of a period, computed from the inputs      *)

\* the canonical sign of a cash flow: purchases positive, sales negative,
\* every other event as exported
SignedAmount(r) ==
    IF r.Code = "Buy" THEN Abs(r.Amount)
    ELSE IF r.Code = "Sell" THEN -Abs(r.Amount)
    ELSE r.Amount

\* weight = (day_count - t_i + 1) / day_count, t_i = 1 on the first day
SpecWeight(T, t_i) == Norm(T - t_i + 1, T)

SpecContribution(r) ==
    FMul(SpecWeight(DaysInPeriod(r.Period), r.Day), I(SignedAmount(r)))

\* the weighted cash flow of all the transactions of period p
SpecWCF(p) == FSumSeq(Map(RowsIn(txns, p), SpecContribution))

IsTradeCode(r) == r.Code \in {"Buy", "Sell"}

\* the net cash flow of period p: purchases and sales only
SpecNetCF(p) == SumSeq(Map(SelectSeq(RowsIn(txns, p), IsTradeCode), SignedAmount))

\* the signed quantity delta of a transaction
SpecDelta(r) ==
    IF r.Code = "Buy" THEN r.Quantity
    ELSE IF r.Code = "Sell" THEN -r.Quantity
    ELSE IF r.Code = "SPL" /\ r.Quantity > 0 THEN r.Quantity
    ELSE 0

SpecSharesDelta(p) == SumSeq(Map(RowsIn(txns, p), SpecDelta))

Rows == 1..Len(table)

\* the period table is complete: the script is past its metrics
Computed == pc \in {"link", "done"}

----------------------------------------------------------------------------
(* Claims                                                                 *)

\* the worked example: the month opens with a NAV of 1000, its one
\* transaction is a purchase of 500 on day 15 of 30, and it closes at 1600
C1_Example(row) ==
    /\ DaysInPeriod(row.As_of_Date) = 30
    /\ Len(txns) = 1
    /\ txns[1].Code = "Buy" /\ txns[1].Day = 15 /\ txns[1].Amount = -500
    /\ row.NAV_BOM = I(1000)
    /\ row.NAV_EOM = I(1600)

\* C1: calculate_metrics and lines 80-87 of TOST_return.py set
\* average_capital = nav_bom + WCF, pnl = nav_eom - nav_bom - net_cf and,
\* where average_capital is not 0, return = pnl / average_capital; in the
\* worked example WCF = 500 * 16 / 30, pnl = 100 and the return is 3/38.
C1_ModifiedDietzFormulas ==
    (prog \in {"IR", "TOST"} /\ Computed) =>
        \A k \in Rows :
            LET row == table[k]
            IN  /\ row.Average_Capital = FAdd(row.NAV_BOM, row.WCF)
                /\ row.PnL = FSub(FSub(row.NAV_EOM, row.NAV_BOM), I(row.Net_CF))
                /\ row.Average_Capital # I(0) =>
                      row.Modified_Dietz_Return = FDiv(row.PnL, row.Average_Capital)
                /\ C1_Example(row) =>
                      /\ row.WCF = Norm(500 * 16, 30)
                      /\ row.PnL = I(100)
                      /\ row.Modified_Dietz_Return = <<3, 38>>

\* C1 witness: calculate_metrics has computed the worked example
C1_Witness ==
    /\ prog = "IR" /\ Computed /\ Len(table) = 1
    /\ C1_Example(table[1])
    /\ table[1].Average_Capital = <<3800, 3>>

\* C2: in investment_returns.py the WCF of every period row is the sum over
\* all the instrument's transactions of the period, dividends included, of
\* weight * signed amount.
C2_WcfSumsAllTransactions ==
    (prog = "IR" /\ Computed) =>
        \A k \in Rows : table[k].WCF = SpecWCF(table[k].As_of_Date)

C5_PositionContinuity ==
    (prog \in {"IR", "PAV", "TOST"} /\ table # <<>>) =>
        /\ table[1].Shares_BOM = 0
        /\ \A k \in 1..(Len(table) - 1) :
              table[k].Shares_EOM = table[k + 1].Shares_BOM

\* C5 witness: investment_returns.py has built a table whose second row
\* opens with a position and closes with another one.
C5_Witness ==
    /\ prog = "IR" /\ Computed /\ Len(table) >= 2
    /\ table[2].Shares_BOM # 0
    /\ table[2].Shares_EOM # table[2].Shares_BOM

\* C6: in every period row shares_eom is shares_bom plus the Buy quantities
\* and positive Split quantities of the period minus its Sell quantities.
C6_SharesFollowSignedQuantities ==
    (prog \in {"IR", "PAV"} /\ Computed) =>
        \A k \in Rows :
            table[k].Shares_EOM =
                table[k].Shares_BOM + SpecSharesDelta(table[k].As_of_Date)

C10_NoResetLinkedSeries ==
    (Linked /\ AllDefined) =>
        /\ table[1].LTD_Return = table[1].Modified_Dietz_Return
        /\ \A n \in 2..Len(table) :
              table[n].LTD_Return =
                  FSub(FMul(FAdd(I(1), table[n - 1].LTD_Return),
                            FAdd(I(1), table[n].Modified_Dietz_Return)), I(1))
        /\ (Len(table) = 2 /\ table[1].Modified_Dietz_Return = <<1, 20>>
                           /\ table[2].Modified_Dietz_Return = <<3, 100>>) =>
              table[2].LTD_Return = <<163, 2000>>

\* C11: in the linked series without reset a period whose return is undefined
\* keeps the linked value of the period before it (0 in the first period), and
\* every defined return compounds on the value before it, as if the undefined
\* periods were absent (investment_returns.py, TOST_return.py).
C11_UndefinedReturnKeepsLinkedValue ==
    (prog \in {"IR", "TOST"} /\ Linked) =>
        \A n \in Rows :
            LET prev == IF n = 1 THEN I(0) ELSE table[n - 1].LTD_Return
                r == table[n].Modified_Dietz_Return
            IN  IF IsNull(r) THEN table[n].LTD_Return = prev
                ELSE table[n].LTD_Return =
                         FSub(FMul(FAdd(I(1), prev), FAdd(I(1), r)), I(1))

\* C12: in the series calculate_geometric_linked_returns emits, every period
\* that ends with a position of 0 has the linked value 0, whatever its own
\* return and whatever the linked value before it.
C12_ClosedPositionResetsToZero ==
    (prog = "TOST" /\ pc = "done") =>
        \A n \in Rows :
            table[n].Shares_EOM = 0 => table[n].Reset_Linked_Return = I(0)

\* C12 witness: a period with a position and a return is followed by a
\* period that closes the position with a return of its own.
C12_Witness ==
    /\ prog = "TOST" /\ pc = "done" /\ Len(table) >= 2
    /\ table[1].Shares_EOM # 0 /\ table[1].Reset_Linked_Return = <<1, 2>>
    /\ table[2].Shares_EOM = 0 /\ table[2].Modified_Dietz_Return = <<-1, 2>>
    /\ table[2].Reset_Linked_Return = I(0)

\* the row that follows the last closure before row n (1 without a closure)
RECURSIVE AfterClosure(_)
AfterClosure(n) ==
    IF n = 1 THEN 1
    ELSE IF table[n - 1].Shares_EOM = 0 THEN n
    ELSE AfterClosure(n - 1)

\* row n is the first row since the last closure to hold a position and a
\* defined return
FirstOpenDefined(n) ==
    /\ table[n].Shares_EOM # 0
    /\ IsFinite(table[n].Modified_Dietz_Return)
    /\ \A m \in AfterClosure(n)..(n - 1) :
          table[m].Shares_EOM = 0 \/ IsNull(table[m].Modified_Dietz_Return)

\* C13: in the series with reset the first period after a closure that holds
\* a position and has a defined return r has the linked value r, whatever
\* the returns before the closure.
C13_FirstPeriodAfterClosureEmitsOwnReturn ==
    (prog = "TOST" /\ pc \in {"done", "raised"}) =>
        \A n \in Rows :
            (AfterClosure(n) > 1 /\ FirstOpenDefined(n)) =>
                /\ pc = "done"
                /\ table[n].Reset_Linked_Return = table[n].Modified_Dietz_Return

\* C14: in the series with reset a period that holds a position and has an
\* undefined return keeps the linked value of the period before it, no
\* exception is raised, and every period that holds a position and has a
\* defined return has a defined linked value.
C14_UndefinedReturnInResetSeries ==
    (prog = "TOST" /\ pc \in {"done", "raised"}) =>
        \A n \in Rows :
            LET prev == IF n = 1 THEN I(0) ELSE table[n - 1].Reset_Linked_Return
            IN  table[n].Shares_EOM # 0 =>
                    IF IsNull(table[n].Modified_Dietz_Return)
                    THEN pc = "done" /\ table[n].Reset_Linked_Return = prev
                    ELSE pc = "done" => IsFinite(table[n].Reset_Linked_Return)


----------------------------------------------------------------------------
(* What the specification says of a horizon, computed from the view's rows*)

Horizons == {"MTD", "QTD", "YTD", "TTM", "T2Y", "LTD"}

\* the latest period of an entity's rows
LatestPeriod(data) ==
    CHOOSE d \in {data[i].period_end_date : i \in 1..Len(data)} :
        \A i \in 1..Len(data) : DateLeq(data[i].period_end_date, d)

\* the first month of the calendar quarter, and of the year, of month m
QuarterStart(m) == CHOOSE q \in (m - 2)..m : PeriodMonth(q) \in {1, 4, 7, 10}

YearStart(m) == CHOOSE y \in (m - 11)..m : PeriodMonth(y) = 1

\* the rows of an entity that belong to a horizon
HorizonWindow(data, h) ==
    LET latest == LatestPeriod(data)
        date(i) == data[i].period_end_date
    IN  {i \in 1..Len(data) :
            CASE h = "MTD" -> date(i)[1] = latest[1]
              [] h = "QTD" -> DateLeq(<<QuarterStart(latest[1]), 1>>, date(i))
              [] h = "YTD" -> DateLeq(<<YearStart(latest[1]), 1>>, date(i))
              [] h = "TTM" -> DateLess(MinusMonths(latest, 12), date(i))
              [] h = "T2Y" -> DateLess(MinusMonths(latest, 24), date(i))
              [] h = "LTD" -> TRUE}

\* the product of 1 + md_return over the rows of W among the first k,
\* an undefined return counting as the factor 1
RECURSIVE WindowProduct(_, _, _)
WindowProduct(data, W, k) ==
    IF k = 0 THEN I(1)
    ELSE IF k \notin W \/ IsNull(data[k].md_return)
         THEN WindowProduct(data, W, k - 1)
         ELSE FMul(WindowProduct(data, W, k - 1),
                   FAdd(I(1), data[k].md_return))

WindowReturn(data, h) ==
    FSub(WindowProduct(data, HorizonWindow(data, h), Len(data)), I(1))

\* the view's rows of the entity a summary row stands for
EntityRows(name) ==
    IF name = "PORTFOLIO" THEN df_port
    ELSE [i \in 1..Len(GroupOf(df_instr, name)) |->
             [period_end_date |-> GroupOf(df_instr, name)[i].period_end_date,
              md_return |-> GroupOf(df_instr, name)[i].md_return]]

\* C15: every horizon of every row of the printed table, instrument or
\* portfolio, is the product of 1 + md_return over exactly the periods of
\* the horizon's window, minus 1; a period without a return is the factor 1.
C15_HorizonIsLinkedProduct ==
    Printed =>
        \A n \in Rows : \A h \in Horizons :
            table[n][h] = WindowReturn(EntityRows(table[n].Instrument), h)

\* C15: an instrument with more than a year of periods, one of them in the
\* trailing year without a return, is printed with the portfolio.
C15_Witness ==
    /\ Printed
    /\ \E n, p \in Rows :
        /\ table[p].Instrument = "PORTFOLIO"
        /\ LET data == EntityRows(table[n].Instrument)
           IN  /\ table[n].Instrument = "A"
               /\ Len(data) > 13
               /\ \E i \in HorizonWindow(data, "TTM") : data[i].md_return = NaN
               /\ table[n].TTM # table[n].LTD


\* the period end dates of a sequence of rows
DatesOf(data) == {data[i].period_end_date : i \in 1..Len(data)}

\* C16: whatever the month of the latest period, the QTD window of an
\* instrument and of the portfolio holds exactly the periods ending on or
\* after the first day of the calendar quarter (1 January, April, July or
\* October) of the latest period, and the printed QTD is linked over them;
\* with the latest period 2024-11-30 it holds the periods from 2024-10-01 on.
C16_QtdFromQuarterStart ==
    Printed =>
        \A n \in Rows :
            LET data == EntityRows(table[n].Instrument)
                latest == LatestPeriod(data)
                window == DatesOf(qtd_data(data, MaxDate(data)))
            IN  /\ window = {d \in DatesOf(data) :
                                DateLeq(<<QuarterStart(latest[1]), 1>>, d)}
                /\ table[n].QTD = WindowReturn(data, "QTD")
                /\ latest = <<11, 30>> =>
                        window = {d \in DatesOf(data) : DateLeq(<<10, 1>>, d)}

\* C16: an instrument and a portfolio whose latest period is 2024-11-30 and
\* which have the periods of September, October and November are printed.
C16_Witness ==
    /\ Printed
    /\ \E n, p \in Rows :
        /\ table[n].Instrument = "A" /\ table[p].Instrument = "PORTFOLIO"
        /\ \A e \in {n, p} :
            LET data == EntityRows(table[e].Instrument)
            IN  /\ LatestPeriod(data) = <<11, 30>>
                /\ {<<9, 30>>, <<10, 31>>} \subseteq DatesOf(data)
                /\ DatesOf(qtd_data(data, MaxDate(data))) = {<<10, 31>>, <<11, 30>>}


\* the number of calendar months a trailing horizon reaches back
TrailingMonths(h) == IF h = "TTM" THEN 12 ELSE 24

\* the window calculate_portfolio_returns selects for a trailing horizon
PortfolioTrailing(d, h) ==
    IF h = "TTM" THEN ttm_data(d, MaxDate(d)) ELSE t2y_data(d, MaxDate(d))

\* C17: the TTM (T2Y) window holds exactly the periods ending strictly
\* later than the latest period end minus 12 (24) calendar months, a period
\* ending exactly on that date is left out, the printed TTM and T2Y are
\* linked over these periods, and the selection made for an instrument and
\* the one made for the portfolio pick the same periods of the same series.
C17_TrailingWindowStrictlyAfterCutoff ==
    Printed =>
        \A n \in Rows : \A h \in {"TTM", "T2Y"} :
            LET data == EntityRows(table[n].Instrument)
                cutoff == MinusMonths(LatestPeriod(data), TrailingMonths(h))
                window == DatesOf(trailing_data(data, TrailingMonths(h)))
            IN  /\ window = {d \in DatesOf(data) : DateLess(cutoff, d)}
                /\ cutoff \notin window
                /\ window = DatesOf(PortfolioTrailing(data, h))
                /\ table[n][h] = WindowReturn(data, h)

\* C17: an instrument and a portfolio with the same series are printed, the
\* series has a period ending exactly twelve months before the latest and
\* one ending exactly twenty-four months before it.
C17_Witness ==
    /\ Printed
    /\ \E n, p \in Rows :
        /\ table[n].Instrument = "A" /\ table[p].Instrument = "PORTFOLIO"
        /\ EntityRows("A") = df_port
        /\ MinusMonths(LatestPeriod(df_port), 12) \in DatesOf(df_port)
        /\ MinusMonths(LatestPeriod(df_port), 24) \in DatesOf(df_port)
        /\ table[n].TTM # table[n].T2Y /\ table[n].T2Y # table[n].LTD


\* C18: in the combined table main prints, the PORTFOLIO row stands after
\* every instrument row whatever its LTD is, and the instrument rows stand
\* in non-increasing order of LTD.
C18_PortfolioLastInstrumentsByLtd ==
    Printed =>
        \A i, j \in Rows :
            i < j =>
                /\ table[i].Instrument # "PORTFOLIO"
                /\ table[j].Instrument # "PORTFOLIO" =>
                        FLeq(table[j].LTD, table[i].LTD)

\* C18: two instruments of different LTD are printed with a portfolio whose
\* LTD is greater than both.
C18_Witness ==
    /\ Printed
    /\ Len(table) = 3
    /\ table[3].Instrument = "PORTFOLIO"
    /\ table[1].LTD # table[2].LTD
    /\ ~FLeq(table[3].LTD, table[1].LTD)


\* a row of the printed table for the named entity
RowOf(name) == {n \in Rows : table[n].Instrument = name}

\* C19: when the dashboard has run, an entity without periods (the
\* portfolio with an empty view, the instruments with an empty view) has not
\* stopped it: a portfolio without periods has a row whose six horizons are
\* all missing, and every entity that has periods has its row.
C19_EmptyEntityGivesMissingRow ==
    (prog = "PD" /\ pc = "done") =>
        /\ df_port = <<>> =>
               \E n \in RowOf("PORTFOLIO") : \A h \in Horizons : table[n][h] = None
        /\ df_port # <<>> => RowOf("PORTFOLIO") # {}
        /\ \A name \in InstrumentsOf(df_instr) : RowOf(name) # {}


\* the script has built its period table
PeriodsGenerated == prog \in {"IR", "PAV", "AVR"} /\ (table # <<>> \/ pc = "done")

\* C20: the periods generated for the instrument are the calendar months
\* from the month of its first transaction to the end of the range, each
\* exactly once and in ascending order, the months without a transaction
\* included.
C20_PeriodsAreDense ==
    PeriodsGenerated =>
        LET first == txns[1].Period
        IN  /\ Len(table) = NumPeriods - first + 1
            /\ \A k \in Rows : table[k].As_of_Date = first + k - 1


\* the last close observed in or before month p, NaN where there is none
RECURSIVE LastObserved(_, _)
LastObserved(prices, p) ==
    IF p < 1 THEN NaN
    ELSE IF p \in DOMAIN prices THEN I(prices[p].last)
    ELSE LastObserved(prices, p - 1)

\* C21: a period in or before which no price was observed has no row; no
\* row carries a price (or the NAV of a held position) that is 0 for lack
\* of a price; a price missing in a period is the price of an earlier
\* period, never the period's own or a later one: the closes of a month
\* without a quote are the last close observed before it, and the opening
\* price process_asset_value.py takes from the prior month is a prior
\* month's close.
C21_NoPriceNoPeriod ==
    PricesMerged =>
        \A n \in Rows :
            LET p == table[n].As_of_Date
            IN  /\ \E q \in DOMAIN hist : q <= p
                /\ table[n].BOM_Price # I(0) /\ table[n].EOM_Price # I(0)
                /\ p \notin DOMAIN hist =>
                       /\ table[n].EOM_Price = LastObserved(hist, p - 1)
                       /\ table[n].BOM_Price = LastObserved(hist, p - 1)
                /\ prog = "PAV" =>
                       table[n].BOM_Price \in
                           {I(hist[q].last) : q \in {m \in DOMAIN hist : m < p}}


\* the exported rows a script prepares, in the order of its frame
RawRows ==
    IF prog = "TOST" THEN SelectSeq(txns, IsBuySellCode)
    ELSE IF prog = "AVR" THEN SelectSeq(txns, AVR_IsFetched)
    ELSE txns

\* the script has normalised the amounts of its rows
Normalised ==
    \/ prog = "IR" /\ pc = "shares"
    \/ prog \in {"TOST", "TRA"} /\ pc = "periods"
    \/ prog = "AVR" /\ pc = "returns"

\* the amount a prepared row carries
PreparedAmount(i) == IF prog = "IR" THEN df[i].Adjusted_Amount ELSE df[i].Amount

\* C22: whichever script normalises the rows (adjust_cash_flow_sign, the
\* CASE of fetch_transactions, the Amount lambda and adjust_amount of the
\* TOST scripts) and whatever the sign of the exported amount, a Buy carries
\* |amount| >= 0, a Sell -|amount| <= 0, and every other event its exported
\* amount.
C22_SignNormalisation ==
    Normalised =>
        /\ Len(df) = Len(RawRows)
        /\ \A i \in 1..Len(df) :
            /\ PreparedAmount(i) = SignedAmount(RawRows[i])
            /\ RawRows[i].Code = "Buy" => PreparedAmount(i) >= 0
            /\ RawRows[i].Code = "Sell" => PreparedAmount(i) <= 0


\* the event priority of a Trans Code: opens, closes, expirations, the rest
EventPriority(code) ==
    IF code \in {"Buy", "BTO", "STO"} THEN 1
    ELSE IF code \in {"Sell", "STC", "BTC"} THEN 2
    ELSE IF code = "OEXP" THEN 3
    ELSE 4

\* C23: the rows ingest_transactions has sorted are the rows of the CSV,
\* each once, in ascending activity_date; within one date every open (Buy,
\* Buy to Open, Sell to Open) stands before every close (Sell, Sell to
\* Close, Buy to Close), every close before every option expiration and
\* every expiration before every other code; rows of one date and one
\* priority keep the order of the CSV.
C23_SortedByDatePriorityOrder ==
    (prog = "ING" /\ pc = "done") =>
        /\ Len(df) = Len(txns)
        /\ {df[i].original_idx : i \in 1..Len(df)} = 1..Len(txns)
        /\ \A i \in 1..Len(df) :
               LET raw == txns[df[i].original_idx]
               IN  <<df[i].Period, df[i].Day, df[i].Code>>
                       = <<raw.Period, raw.Day, raw.Code>>
        /\ \A i, j \in 1..Len(df) :
               i < j =>
                   /\ df[i].Day <= df[j].Day
                   /\ df[i].Day = df[j].Day =>
                          EventPriority(df[i].Code) <= EventPriority(df[j].Code)
                   /\ (df[i].Day = df[j].Day
                          /\ EventPriority(df[i].Code) = EventPriority(df[j].Code)) =>
                          df[i].original_idx < df[j].original_idx


\* the running totals of a scanned frame follow the rule of the position:
\* from 0, plus the quantity of a Buy and of a Split of positive quantity,
\* minus the quantity of a Sell, unchanged by anything else
FollowsPositionRule(scanned) ==
    \A i \in 1..Len(scanned) :
        LET before == IF i = 1 THEN 0 ELSE scanned[i - 1].Cumulative_Shares
            row == scanned[i]
        IN  row.Cumulative_Shares =
                CASE row.Event_Type = "Buy" -> before + row.Quantity
                  [] row.Event_Type = "Sell" -> before - row.Quantity
                  [] row.Event_Type = "Split" /\ row.Quantity > 0 -> before + row.Quantity
                  [] OTHER -> before

\* C24: after calculate_cumulative_shares has scanned the transactions, the
\* running total after each one is the total before it plus the quantity of
\* a Buy or of a Split with quantity > 0, minus the quantity of a Sell, and
\* unchanged for a Split with quantity <= 0 and every other event type,
\* starting from 0; it holds for the equity rows main passes and for the
\* whole prepared frame.
C24_RunningShareTotal ==
    (prog = "IR" /\ pc = "prices") =>
        /\ FollowsPositionRule(df)
        /\ FollowsPositionRule(calculate_cumulative_shares(Map(txns, PreparedRow)))

\* C24: a Buy followed by a Split of non-positive quantity has been scanned
\* and the Split left the total where the Buy had put it.
C24_Witness ==
    /\ prog = "IR" /\ pc = "prices"
    /\ Len(df) = 2
    /\ df[1].Event_Type = "Buy" /\ df[1].Cumulative_Shares = df[1].Quantity
    /\ df[2].Event_Type = "Split" /\ df[2].Quantity <= 0
    /\ df[2].Cumulative_Shares = df[1].Cumulative_Shares


InstrumentRowsOf == {n \in Rows : table[n].Instrument # "PORTFOLIO"}

\* C26: for each instrument the MTD window starts on the first calendar day
\* of the month of the instrument's own latest period and the YTD window on
\* 1 January of that year, the periods ending on or after the start being
\* included; the latest period of another instrument plays no part.
C26_MtdYtdFromOwnLatestPeriod ==
    Printed =>
        \A n \in InstrumentRowsOf :
            LET data == EntityRows(table[n].Instrument)
                latest == LatestPeriod(data)
                month == {i \in 1..Len(data) :
                             DateLeq(<<latest[1], 1>>, data[i].period_end_date)}
                year == {i \in 1..Len(data) :
                            /\ PeriodYear(data[i].period_end_date[1]) = PeriodYear(latest[1])
                            /\ DateLeq(data[i].period_end_date, latest)}
            IN  /\ table[n].MTD = FSub(WindowProduct(data, month, Len(data)), I(1))
                /\ table[n].YTD = FSub(WindowProduct(data, year, Len(data)), I(1))

\* C26: two instruments are printed whose latest periods lie in different
\* years, and the one with the earlier latest period has its own MTD and YTD.
C26_Witness ==
    /\ Printed
    /\ \E a, b \in InstrumentRowsOf :
        LET latestA == LatestPeriod(EntityRows(table[a].Instrument))
            latestB == LatestPeriod(EntityRows(table[b].Instrument))
        IN  /\ DateLess(latestB, latestA)
            /\ PeriodYear(latestB[1]) < PeriodYear(latestA[1])
            /\ Len(EntityRows(table[a].Instrument)) > 1
            /\ table[a].MTD = table[a].YTD /\ table[a].YTD # table[a].LTD
            /\ table[b].MTD = I(3) /\ table[b].YTD = I(3)


\* the rows of the summary that stand for the named instrument
SummaryOf(summary, name) ==
    {summary[n] : n \in {i \in 1..Len(summary) : summary[i].Instrument = name}}

\* C27: the summary row calculate_linked_returns gives an instrument depends
\* on the instrument's own rows only: with the rows of the other instrument
\* replaced by any others (none, a different month, different or undefined
\* returns) the instrument has a row again, and its MTD, QTD, YTD, TTM, T2Y
\* and LTD are what they were.
C27_SummaryDependsOnOwnRowsOnly ==
    (prog = "PD" /\ pc = "portfolio") =>
        \A name \in InstrumentsOf(df_instr) \cap {"A"} :
            LET own == GroupOf(df_instr, name)
                last == MaxDate(own)[1]
            IN  /\ Cardinality(SummaryOf(table, name)) = 1
                /\ \A other \in SecondInstrument(last) :
                       \A summary \in calculate_linked_returns(own \o other) :
                           SummaryOf(summary, name) = SummaryOf(table, name)

\* C27: an instrument of several periods has been summarised beside a
\* second instrument whose only return is undefined.
C27_Witness ==
    /\ prog = "PD" /\ pc = "portfolio"
    /\ Len(GroupOf(df_instr, "A")) > 12
    /\ Len(GroupOf(df_instr, "B")) = 1
    /\ GroupOf(df_instr, "B")[1].md_return = NaN
    /\ Cardinality(SummaryOf(table, "A")) = 1
    /\ Cardinality(SummaryOf(table, "B")) = 1


\* the return column of a period table as the dashboard reads it back
ReturnSeries(period_table) ==
    [k \in 1..Len(period_table) |->
        [period_end_date |-> PeriodEnd(period_table[k].As_of_Date),
         md_return |-> period_table[k].Modified_Dietz_Return]]

\* C28: whatever returns of the series are undefined, the last value of the
\* linked series calculate_geometric_returns produces is the return
\* calculate_twr computes over the whole series, and the one portfolio_twr
\* computes over it.
C28_LastLinkedValueIsLtd ==
    (prog = "IR" /\ pc = "done" /\ table # <<>>) =>
        /\ table[Len(table)].LTD_Return = calculate_twr(ReturnSeries(table))
        /\ table[Len(table)].LTD_Return = portfolio_twr(ReturnSeries(table))

\* C28: a series of three periods has been linked, one return undefined as
\* NaN, one as None and one defined.
C28_Witness ==
    /\ prog = "IR" /\ pc = "done" /\ Len(table) = 3
    /\ \E i, j, k \in Rows :
        /\ table[i].Modified_Dietz_Return = NaN
        /\ table[j].Modified_Dietz_Return = None
        /\ IsFinite(table[k].Modified_Dietz_Return)
        /\ table[3].LTD_Return = table[k].Modified_Dietz_Return


\* the period end dates each horizon of an entity selects: the windows of
\* calculate_linked_returns for an instrument, those of
\* calculate_portfolio_returns for the portfolio
Selected(name, h) ==
    LET data == EntityRows(name)
        latest_month == MaxDate(data)
    IN  DatesOf(CASE h = "MTD" -> mtd_data(data, latest_month)
                  [] h = "QTD" -> qtd_data(data, latest_month)
                  [] h = "YTD" -> ytd_data(data, latest_month)
                  [] h \in {"TTM", "T2Y"} ->
                        IF name = "PORTFOLIO" THEN PortfolioTrailing(data, h)
                        ELSE trailing_data(data, TrailingMonths(h))
                  [] h = "LTD" -> data)

\* C29: the windows selected for an instrument and for the portfolio are
\* nested, MTD in QTD in YTD in LTD and TTM in T2Y in LTD, and none is
\* empty: each holds the latest period.
C29_WindowsNestedAndNonEmpty ==
    Printed =>
        \A n \in Rows :
            LET name == table[n].Instrument
            IN  /\ Selected(name, "MTD") \subseteq Selected(name, "QTD")
                /\ Selected(name, "QTD") \subseteq Selected(name, "YTD")
                /\ Selected(name, "YTD") \subseteq Selected(name, "LTD")
                /\ Selected(name, "TTM") \subseteq Selected(name, "T2Y")
                /\ Selected(name, "T2Y") \subseteq Selected(name, "LTD")
                /\ \A h \in Horizons :
                       LatestPeriod(EntityRows(name)) \in Selected(name, h)

\* C29: an instrument and a portfolio are printed for which every
\* inclusion is a proper one.
C29_Witness ==
    /\ Printed
    /\ \E n, p \in Rows :
        /\ table[n].Instrument = "A" /\ table[p].Instrument = "PORTFOLIO"
        /\ \A e \in {"A", "PORTFOLIO"} :
            /\ Selected(e, "MTD") # Selected(e, "QTD")
            /\ Selected(e, "QTD") # Selected(e, "YTD")
            /\ Selected(e, "YTD") # Selected(e, "LTD")
            /\ Selected(e, "TTM") # Selected(e, "T2Y")
            /\ Selected(e, "T2Y") # Selected(e, "LTD")


\* C30: for a dense monthly series whose periods end on the last calendar
\* day of each month, leap years included, the TTM window holds at most 12
\* periods and the T2Y window at most 24, whatever the latest month is.
C30_TrailingWindowSize ==
    Printed =>
        \A n \in Rows :
            /\ Cardinality(Selected(table[n].Instrument, "TTM")) <= 12
            /\ Cardinality(Selected(table[n].Instrument, "T2Y")) <= 24

====
